---------------------------- MODULE Spec2Model ----------------------------
(***************************************************************************)
(* MorphoArbre: the client-side morphology library (src/lib/morphology.ts), *)
(* the root classifier, the pattern store (HashTable) and the root index   *)
(* (AVLTree).                                                              *)
(* A string is a sequence of code points; every character the library      *)
(* tests or produces lies in the Basic Multilingual Plane, so a code point *)
(* is one UTF-16 unit and root.length is Len(root).                         *)
(***************************************************************************)
EXTENDS Integers, Sequences, FiniteSets, TLC

VARIABLES pc, op, root, pattern, word, patterns, text, result

\* the key (scheme id or root) given to the last call on a store
VARIABLES key

\* the pattern store (HashTable), the store before the last call, the
\* scheme last put under each id and not removed since, and the ids in the
\* order in which they were inserted
VARIABLES table, tableBefore, lastPut, putOrder

\* the root index (AVLTree), the index before the last call, and the keys
\* handed to insert and not to delete since
VARIABLES tree, treeBefore, inserted

\* the pattern store into which a serialized store was read back
VARIABLES restored

\* the React state of the App component, the handler invocations that are
\* waiting for the network, the version of the data held by the backend,
\* and the requests issued by the last step
VARIABLES app, calls, backend, sent

\* the number of refreshes (fetchData) started so far, and for each piece
\* of fetched state the refresh that set it last
VARIABLES started, shown

appVars == <<app, calls, backend, sent, started, shown>>

storeVars ==
  <<key, table, tableBefore, lastPut, putOrder, tree, treeBefore, inserted,
    restored, appVars>>

vars ==
  <<pc, op, root, pattern, word, patterns, text, result, key, table,
    tableBefore, lastPut, putOrder, tree, treeBefore, inserted, restored,
    app, calls, backend, sent, started, shown>>

(***************************************************************************)
(* Code points.                                                            *)
(***************************************************************************)
\* the three radical markers tested by generateWord
FA == 1601
AIN == 1593
LAM == 1604
\* the harakat range U+064B..U+0652 removed by normalizeArabic
HarakatFirst == 1611
HarakatLast == 1618
\* the letters folded by normalizeArabic and the letters they fold to
ALEF_MADDA == 1570
ALEF_HAMZA_BELOW == 1573
ALEF_HAMZA_ABOVE == 1571
WAW_HAMZA == 1572
YEH_HAMZA == 1574
TEH_MARBUTA == 1577
ALEF == 1575
WAW == 1608
YEH == 1610
HEH == 1607
\* harakat used by the documented templates
FATHA == 1614
DAMMA == 1615
KASRA == 1616
SUKUN == 1618
\* affix letters of the documented templates and letters of the sample roots
MIM == 1605
TEH == 1578
NOON == 1606
KAF == 1603
BEH == 1576
QAF == 1602
\* U+0653, the first code point above the harakat range
MADDAH_ABOVE == HarakatLast + 1

\* "Error: Root must be 3 characters"
ErrorMsg ==
  <<69, 114, 114, 111, 114, 58, 32, 82, 111, 111, 116, 32, 109, 117, 115,
    116, 32, 98, 101, 32, 51, 32, 99, 104, 97, 114, 97, 99, 116, 101, 114,
    115>>

(***************************************************************************)
(* generateWord                                                            *)
(***************************************************************************)
\* the body of `for (let char of pattern)`, from template position i on
RECURSIVE substituteFrom(_, _, _, _, _, _)
substituteFrom(pat, i, r1, r2, r3, acc) ==
  IF i > Len(pat) THEN acc
  ELSE LET char == pat[i]
       IN substituteFrom(pat, i + 1, r1, r2, r3,
            IF char = FA THEN Append(acc, r1)
            ELSE IF char = AIN THEN Append(acc, r2)
            ELSE IF char = LAM THEN Append(acc, r3)
            ELSE Append(acc, char))

\* str.replace(/from/, to): without the g flag only the first match changes
ReplaceFirst(str, from, to) ==
  LET hits == {i \in 1..Len(str) : str[i] = from}
  IN IF hits = {} THEN str
     ELSE [str EXCEPT ![CHOOSE i \in hits : \A j \in hits : i <= j] = to]

\* str.replace(/from/g, to) for a one-character pattern
ReplaceAll(str, from, to) ==
  [i \in 1..Len(str) |-> IF str[i] = from THEN to ELSE str[i]]

\* a substitution by three successive whole-string replacements
generateWordChained(rt, pat) ==
  IF Len(rt) # 3 THEN ErrorMsg
  ELSE ReplaceAll(ReplaceAll(ReplaceAll(pat, FA, rt[1]), AIN, rt[2]),
                    LAM, rt[3])

generateWord(rt, pat) ==
  IF Len(rt) # 3 THEN ErrorMsg
  ELSE substituteFrom(pat, 1, rt[1], rt[2], rt[3], <<>>)

(***************************************************************************)
(* normalizeArabic                                                         *)
(***************************************************************************)
\* str.replace(/[lo-hi]/g, "")
RemoveRange(str, lo, hi) ==
  SelectSeq(str, LAMBDA c : ~(lo <= c /\ c <= hi))

\* the harakat class written one code point short: sukun survives
normalizeArabicShortRange(txt) ==
  LET s0 == RemoveRange(txt, HarakatFirst, HarakatLast - 1)
      s1 == ReplaceAll(s0, ALEF_MADDA, ALEF)
      s2 == ReplaceAll(s1, ALEF_HAMZA_BELOW, ALEF)
      s3 == ReplaceAll(s2, ALEF_HAMZA_ABOVE, ALEF)
      s4 == ReplaceAll(s3, WAW_HAMZA, WAW)
      s5 == ReplaceAll(s4, YEH_HAMZA, YEH)
  IN ReplaceAll(s5, TEH_MARBUTA, HEH)

\* the chain of seven replace calls, each applied to the previous result
normalizeArabic(txt) ==
  LET s0 == RemoveRange(txt, HarakatFirst, HarakatLast)
      s1 == ReplaceAll(s0, ALEF_MADDA, ALEF)
      s2 == ReplaceAll(s1, ALEF_HAMZA_BELOW, ALEF)
      s3 == ReplaceAll(s2, ALEF_HAMZA_ABOVE, ALEF)
      s4 == ReplaceAll(s3, WAW_HAMZA, WAW)
      s5 == ReplaceAll(s4, YEH_HAMZA, YEH)
  IN ReplaceAll(s5, TEH_MARBUTA, HEH)

(***************************************************************************)
(* validateWord                                                            *)
(***************************************************************************)
\* the indices of the patterns whose regenerated word equals w under
\* normalization
Matching(w, rt, ps) ==
  {i \in 1..Len(ps) :
     normalizeArabic(generateWord(rt, ps[i])) = normalizeArabic(w)}

Least(S) == CHOOSE i \in S : \A j \in S : i <= j

Greatest(S) == CHOOSE i \in S : \A j \in S : j <= i

\* a loop that records the match and keeps going: the last match wins
validateWordLast(w, rt, ps) ==
  IF Matching(w, rt, ps) = {} THEN [isValid |-> FALSE]
  ELSE [isValid |-> TRUE, scheme |-> ps[Greatest(Matching(w, rt, ps))]]

\* the plain equality check, without normalization
validateWordRaw(w, rt, ps) ==
  LET hits == {i \in 1..Len(ps) : generateWord(rt, ps[i]) = w}
  IN IF hits = {} THEN [isValid |-> FALSE]
     ELSE [isValid |-> TRUE, scheme |-> ps[Least(hits)]]

\* a loop that reports the regenerated word in place of the pattern
validateWordEcho(w, rt, ps) ==
  IF Matching(w, rt, ps) = {} THEN [isValid |-> FALSE]
  ELSE [isValid |-> TRUE,
        scheme |-> generateWord(rt, ps[Least(Matching(w, rt, ps))])]

\* only the regenerated word is normalized, the candidate is compared as-is
validateWordHalf(w, rt, ps) ==
  LET hits == {i \in 1..Len(ps) :
                 normalizeArabic(generateWord(rt, ps[i])) = w}
  IN IF hits = {} THEN [isValid |-> FALSE]
     ELSE [isValid |-> TRUE, scheme |-> ps[Least(hits)]]

\* the body of `for (const pattern of patterns)`, from list position i on
RECURSIVE validateFrom(_, _, _, _)
validateFrom(w, rt, ps, i) ==
  IF i > Len(ps) THEN [isValid |-> FALSE]
  ELSE LET generated == generateWord(rt, ps[i])
       IN IF normalizeArabic(generated) = normalizeArabic(w)
          THEN [isValid |-> TRUE, scheme |-> ps[i]]
          ELSE validateFrom(w, rt, ps, i + 1)

validateWord(w, rt, ps) == validateFrom(w, rt, ps, 1)

(***************************************************************************)
(* Inputs                                                                  *)
(***************************************************************************)
MaxRootLen == 4
MaxTemplateLen == 3
MaxPatterns == 2
MaxTextLen == 3

SeqsUpTo(S, n) == UNION {[1..k -> S] : k \in 0..n}

\* the pattern table of the implementation report
PatFaala == <<FA, FATHA, AIN, FATHA, LAM, FATHA>>
PatFaail == <<FA, FATHA, ALEF, AIN, KASRA, LAM>>
PatMafool == <<MIM, FATHA, FA, SUKUN, AIN, DAMMA, WAW, LAM>>
PatImperative == <<ALEF, FA, SUKUN, AIN, FATHA, LAM>>
PatYafalu == <<YEH, FATHA, FA, SUKUN, AIN, FATHA, LAM, DAMMA>>
PatTafalu == <<TEH, FATHA, FA, SUKUN, AIN, FATHA, LAM, DAMMA>>
PatNafalu == <<NOON, FATHA, FA, SUKUN, AIN, FATHA, LAM, DAMMA>>
PatAfalu == <<ALEF_HAMZA_ABOVE, FATHA, FA, SUKUN, AIN, FATHA, LAM, DAMMA>>
PatFaila == <<FA, FATHA, AIN, KASRA, LAM, FATHA>>
PatFaaila == <<FA, FATHA, ALEF, AIN, KASRA, LAM, FATHA, TEH_MARBUTA>>
PatAlFaail == <<ALEF, LAM, SUKUN, FA, FATHA, ALEF, AIN, KASRA, LAM>>
PatAlMafool ==
  <<ALEF, LAM, SUKUN, MIM, FATHA, FA, SUKUN, AIN, DAMMA, WAW, LAM>>

PatternTable ==
  {PatFaala, PatFaail, PatMafool, PatImperative, PatYafalu, PatTafalu,
   PatNafalu, PatAfalu, PatFaila, PatFaaila, PatAlFaail, PatAlMafool}

\* the roots of the documented scenarios, and the placeholder word itself
KTB == <<KAF, TEH, BEH>>
QAL == <<QAF, ALEF, LAM>>
AKL == <<ALEF_HAMZA_ABOVE, KAF, LAM>>
BQY == <<BEH, QAF, YEH>>
FAL == <<FA, AIN, LAM>>

SampleRoots == {KTB, QAL, AKL, BQY, FAL}

RootLetters == {LAM, ALEF_HAMZA_ABOVE}

\* roots of every length from 0 to MaxRootLen: only length 3 is well formed
Roots == SampleRoots \cup SeqsUpTo(RootLetters, MaxRootLen)

TemplateLetters == {FA, AIN, LAM, ALEF, FATHA}

Templates == PatternTable \cup SeqsUpTo(TemplateLetters, MaxTemplateLen)

\* the patterns a validation call is given
KnownPatterns == {PatFaala, PatFaila, PatFaail, PatMafool, PatAlFaail}

PatternLists == SeqsUpTo(KnownPatterns, MaxPatterns)

\* candidate words for a root: its derivations, with and without their
\* harakat and hamza seats, the error text, the empty word and a stranger
CandidateWords(rt) ==
  {generateWord(rt, p) : p \in KnownPatterns}
    \cup {normalizeArabic(generateWord(rt, p)) : p \in KnownPatterns}
    \cup {ErrorMsg, <<>>, <<KAF, ALEF, TEH, BEH>>, <<MIM, KAF, TEH, WAW, BEH>>}

NormLetters ==
  {ALEF_MADDA, ALEF_HAMZA_BELOW, ALEF_HAMZA_ABOVE, WAW_HAMZA, YEH_HAMZA,
   TEH_MARBUTA, ALEF, WAW, YEH, HEH, KAF, HarakatFirst, HarakatLast,
   MADDAH_ABOVE}

Texts == SeqsUpTo(NormLetters, MaxTextLen)

(***************************************************************************)
(* The calls.  The library is stateless: a call is given its arguments     *)
(* (Init draws them) and one step runs it to its return value.             *)
(***************************************************************************)
GenerateCall ==
  /\ op = "generate"
  /\ root \in Roots
  /\ pattern \in Templates
  /\ word = <<>>
  /\ patterns = <<>>
  /\ text = <<>>

ValidateCall ==
  /\ op = "validate"
  /\ root \in Roots
  /\ patterns \in PatternLists
  /\ word \in CandidateWords(root)
  /\ pattern = <<>>
  /\ text = <<>>

NormalizeCall ==
  /\ op = "normalize"
  /\ text \in Texts
  /\ root = <<>>
  /\ pattern = <<>>
  /\ word = <<>>
  /\ patterns = <<>>

\* no store is constructed
NoTable ==
  /\ table = <<>>
  /\ tableBefore = <<>>
  /\ lastPut = <<>>
  /\ putOrder = <<>>

NoTree ==
  /\ tree = <<>>
  /\ treeBefore = <<>>
  /\ inserted = {}

\* the App component is not mounted
NoApp ==
  /\ app = <<>>
  /\ calls = <<>>
  /\ backend = 0
  /\ sent = <<>>
  /\ started = 0
  /\ shown = <<>>

NoStores == key = <<>> /\ NoTable /\ restored = <<>> /\ NoTree /\ NoApp

Init ==
  /\ pc = "call"
  /\ result = <<>>
  /\ (GenerateCall \/ ValidateCall \/ NormalizeCall)
  /\ NoStores

Generate ==
  /\ pc = "call"
  /\ op = "generate"
  /\ result' = generateWord(root, pattern)
  /\ pc' = "done"
  /\ UNCHANGED <<op, root, pattern, word, patterns, text, storeVars>>

Validate ==
  /\ pc = "call"
  /\ op = "validate"
  /\ result' = validateWord(word, root, patterns)
  /\ pc' = "done"
  /\ UNCHANGED <<op, root, pattern, word, patterns, text, storeVars>>

Normalize ==
  /\ pc = "call"
  /\ op = "normalize"
  /\ result' = normalizeArabic(text)
  /\ pc' = "done"
  /\ UNCHANGED <<op, root, pattern, word, patterns, text, storeVars>>

Next == Generate \/ Validate \/ Normalize

Spec == Init /\ [][Next]_vars

(***************************************************************************)
(* Properties                                                              *)
(***************************************************************************)
Returned(o) == pc = "done" /\ op = o

IsHaraka(c) == HarakatFirst <= c /\ c <= HarakatLast

FoldedLetters ==
  {ALEF_MADDA, ALEF_HAMZA_BELOW, ALEF_HAMZA_ABOVE, WAW_HAMZA, YEH_HAMZA,
   TEH_MARBUTA}

Fold(c) ==
  IF c \in {ALEF_MADDA, ALEF_HAMZA_BELOW, ALEF_HAMZA_ABOVE} THEN ALEF
  ELSE IF c = WAW_HAMZA THEN WAW
  ELSE IF c = YEH_HAMZA THEN YEH
  ELSE IF c = TEH_MARBUTA THEN HEH
  ELSE c

\* C1: for a 3-character root, generateWord returns one output character
\* per template character: root[0] for FA, root[1] for AIN, root[2] for LAM,
\* the template character itself elsewhere; an emitted root letter that is
\* itself a marker is not substituted again.
C1_OneCharPerTemplateChar ==
  Returned("generate") /\ Len(root) = 3 =>
    /\ Len(result) = Len(pattern)
    /\ \A i \in 1..Len(pattern) :
         result[i] = IF pattern[i] = FA THEN root[1]
                     ELSE IF pattern[i] = AIN THEN root[2]
                     ELSE IF pattern[i] = LAM THEN root[3]
                     ELSE pattern[i]

\* a root whose first letter is the LAM marker went into a FA slot and
\* stayed LAM although root[2] is another letter
C1_Witness ==
  /\ Returned("generate")
  /\ Len(root) = 3
  /\ root[1] = LAM
  /\ root[3] # LAM
  /\ \E i \in 1..Len(pattern) : pattern[i] = FA /\ result[i] = LAM
  /\ \E i \in 1..Len(pattern) : pattern[i] \notin {FA, AIN, LAM}

\* C2: validateWord reports the first pattern, in list order, whose
\* regenerated word equals the candidate under normalization; a later
\* matching pattern is never the one reported.
C2_FirstMatchInListOrder ==
  Returned("validate") /\ Matching(word, root, patterns) # {} =>
    /\ result.isValid
    /\ result.scheme = patterns[Least(Matching(word, root, patterns))]

\* two different patterns of the list both match and the earlier is reported
C2_Witness ==
  /\ Returned("validate")
  /\ \E i, j \in Matching(word, root, patterns) :
       i < j /\ patterns[i] # patterns[j]
  /\ result.isValid
  /\ result.scheme = patterns[1]

\* C3 as stated: validating generateWord(root, p) against a list that
\* contains p returns isValid=true and reports p.
C3_RoundTripReportsP ==
  Returned("validate") /\ Len(root) = 3 =>
    \A i \in 1..Len(patterns) :
      word = generateWord(root, patterns[i]) =>
        result.isValid /\ result.scheme = patterns[i]

\* C3 amended: validating generateWord(root, p) against a list that contains
\* p returns isValid=true, and the pattern reported is the first pattern of
\* the list, at or before p, whose generated word equals generateWord(root,
\* p) under normalization.
C3_RoundTripReportsFirstEqual ==
  Returned("validate") /\ Len(root) = 3 =>
    \A i \in 1..Len(patterns) :
      word = generateWord(root, patterns[i]) =>
        /\ result.isValid
        /\ \E j \in 1..i :
             /\ result.scheme = patterns[j]
             /\ normalizeArabic(generateWord(root, patterns[j]))
                  = normalizeArabic(word)
             /\ \A k \in 1..(j - 1) :
                  normalizeArabic(generateWord(root, patterns[k]))
                    # normalizeArabic(word)

\* the candidate was generated by the second pattern and the first pattern,
\* a different one, is reported
C3_Witness ==
  /\ Returned("validate")
  /\ Len(root) = 3
  /\ Len(patterns) >= 2
  /\ word = generateWord(root, patterns[2])
  /\ result.isValid
  /\ result.scheme = patterns[1]
  /\ patterns[1] # patterns[2]

\* C4: when no pattern of the list matches (the empty list included) the
\* result is isValid=false with no scheme; isValid=true comes only with a
\* scheme that is an element of the list.
C4_NoMatchNoScheme ==
  Returned("validate") =>
    /\ Matching(word, root, patterns) = {} => result = [isValid |-> FALSE]
    /\ result.isValid =>
         /\ DOMAIN result = {"isValid", "scheme"}
         /\ \E i \in 1..Len(patterns) : result.scheme = patterns[i]

\* a list of two patterns was exhausted without a match
C4_Witness ==
  /\ Returned("validate")
  /\ Len(root) = 3
  /\ Len(patterns) >= 2
  /\ word # <<>>
  /\ result = [isValid |-> FALSE]

\* C5: a root whose length is not 3 fails fast: generateWord returns the
\* error outcome and validateWord never returns isValid=true.
C5_InvalidRootFailsFast ==
  pc = "done" /\ Len(root) # 3 =>
    /\ op = "generate" => result = ErrorMsg
    /\ op = "validate" => ~result.isValid

\* C6: the output of normalizeArabic holds no haraka and no folded letter;
\* it is the input with each haraka deleted, each folded letter replaced by
\* its base letter and every other character kept in place and in order.
C6_NormalizeFoldsCharwise ==
  Returned("normalize") =>
    LET kept == SelectSeq(text, LAMBDA c : ~IsHaraka(c))
    IN /\ Len(result) = Len(kept)
       /\ \A i \in 1..Len(kept) : result[i] = Fold(kept[i])
       /\ \A i \in 1..Len(result) :
            ~IsHaraka(result[i]) /\ result[i] \notin FoldedLetters

\* a text with a haraka, a folded letter and an untouched letter
C6_Witness ==
  /\ Returned("normalize")
  /\ \E i \in 1..Len(text) : IsHaraka(text[i])
  /\ \E i \in 1..Len(text) : text[i] \in FoldedLetters
  /\ \E i \in 1..Len(text) : text[i] = MADDAH_ABOVE
  /\ Len(result) = Len(text) - 1

\* C7: normalizeArabic is idempotent.
C7_NormalizeIdempotent ==
  Returned("normalize") => normalizeArabic(result) = result

\* a text that normalization changed, holding the same folded letter twice
C7_Witness ==
  /\ Returned("normalize")
  /\ result # text
  /\ \E i, j \in 1..Len(text) :
       i < j /\ text[i] = text[j] /\ text[i] \in FoldedLetters

\* C8: two candidate words equal under normalization get the same isValid
\* and the same scheme from validateWord, for every root and pattern list.
C8_NormalizedEqualitySuffices ==
  Returned("validate") =>
    \A w2 \in CandidateWords(root) :
      normalizeArabic(w2) = normalizeArabic(word) =>
        validateWord(w2, root, patterns) = result

\* a valid candidate that has a differently written twin
C8_Witness ==
  /\ Returned("validate")
  /\ result.isValid
  /\ \E w2 \in CandidateWords(root) :
       w2 # word /\ normalizeArabic(w2) = normalizeArabic(word)

RemoveHarakat(str) == RemoveRange(str, HarakatFirst, HarakatLast)

\* C9: generation applies the category repair rules: for the hollow root
\* q-a-l the agent-noun pattern yields qa'il (with YEH_HAMZA) and the
\* present-3rd-masculine pattern yields yaqul, not the raw substitutions.
C9_HollowRootRepaired ==
  Returned("generate") /\ root = QAL =>
    /\ pattern = PatFaail =>
         RemoveHarakat(result) = <<QAF, ALEF, YEH_HAMZA, LAM>>
    /\ pattern = PatYafalu =>
         RemoveHarakat(result) = <<YEH, QAF, WAW, LAM>>

\* the radical slots of a template: the first FA, the first AIN after it
\* and the first LAM after that
RadicalSlots(pat) ==
  LET f == Least({i \in 1..Len(pat) : pat[i] = FA})
      a == Least({i \in 1..Len(pat) : i > f /\ pat[i] = AIN})
      l == Least({i \in 1..Len(pat) : i > a /\ pat[i] = LAM})
  IN {f, a, l}

\* C10: for every template of the documented pattern table generateWord
\* replaces only the three radical slots: every haraka and every fixed affix
\* letter of the template is unchanged at its position in the output.
C10_OnlyRadicalSlotsReplaced ==
  Returned("generate") /\ Len(root) = 3 /\ pattern \in PatternTable =>
    /\ Len(result) = Len(pattern)
    /\ \A i \in (1..Len(pattern)) \ RadicalSlots(pattern) :
         result[i] = pattern[i]

(***************************************************************************)
(* The root classifier (specification section 4.2)                         *)
(***************************************************************************)
HAMZA == 1569
ALEF_MAQSURA == 1609

\* every letter form that carries the glottal stop
GlottalLetters ==
  {HAMZA, ALEF_MADDA, ALEF_HAMZA_ABOVE, ALEF_HAMZA_BELOW, WAW_HAMZA,
   YEH_HAMZA}

IsGlottal(c) == c \in GlottalLetters

\* waw or ya
IsWeak(c) == c \in {WAW, YEH}

Categories ==
  {"Regular", "Glottal-Initial", "Glottal-Medial", "Glottal-Final",
   "Weak-Initial", "Weak-Medial-Waw", "Weak-Medial-Ya", "Weak-Final-Ya",
   "Weak-Final-Waw", "Doubly-Weak-Separated", "Doubly-Weak-Adjacent",
   "Doubled-Radical"}

\* rules 5 to 10, the rules about weak letters
classifyWeak(r1, r2, r3) ==
  IF IsWeak(r1) /\ IsWeak(r3) THEN "Doubly-Weak-Separated"
  ELSE IF IsWeak(r2) /\ IsWeak(r3) THEN "Doubly-Weak-Adjacent"
  ELSE IF IsWeak(r1) THEN "Weak-Initial"
  ELSE IF IsWeak(r2)
    THEN (IF r2 = WAW THEN "Weak-Medial-Waw" ELSE "Weak-Medial-Ya")
  ELSE IF r3 \in {YEH, ALEF_MAQSURA} THEN "Weak-Final-Ya"
  ELSE IF r3 \in {WAW, ALEF} THEN "Weak-Final-Waw"
  ELSE "Regular"

\* the weak-letter rules tried before the doubled and glottal rules
classifyWeakFirst(rt) ==
  IF Len(rt) # 3 THEN "InvalidRoot"
  ELSE IF classifyWeak(rt[1], rt[2], rt[3]) # "Regular"
    THEN classifyWeak(rt[1], rt[2], rt[3])
  ELSE IF rt[2] = rt[3] THEN "Doubled-Radical"
  ELSE IF IsGlottal(rt[1]) THEN "Glottal-Initial"
  ELSE IF IsGlottal(rt[2]) THEN "Glottal-Medial"
  ELSE IF IsGlottal(rt[3]) THEN "Glottal-Final"
  ELSE "Regular"

\* rules 1 to 10 in priority order: the first rule that matches wins
classify(rt) ==
  IF Len(rt) # 3 THEN "InvalidRoot"
  ELSE IF rt[2] = rt[3] THEN "Doubled-Radical"
  ELSE IF IsGlottal(rt[1]) THEN "Glottal-Initial"
  ELSE IF IsGlottal(rt[2]) THEN "Glottal-Medial"
  ELSE IF IsGlottal(rt[3]) THEN "Glottal-Final"
  ELSE classifyWeak(rt[1], rt[2], rt[3])

ClassLetters ==
  {KAF, TEH, BEH, QAF, LAM, ALEF, ALEF_HAMZA_ABOVE, HAMZA, WAW, YEH,
   ALEF_MAQSURA}

ClassifyRoots == [1..3 -> ClassLetters] \cup Roots

InitClassify ==
  /\ pc = "call"
  /\ op = "classify"
  /\ root \in ClassifyRoots
  /\ pattern = <<>>
  /\ word = <<>>
  /\ patterns = <<>>
  /\ text = <<>>
  /\ result = <<>>
  /\ NoStores

Classify ==
  /\ pc = "call"
  /\ op = "classify"
  /\ result' = classify(root)
  /\ pc' = "done"
  /\ UNCHANGED <<op, root, pattern, word, patterns, text, storeVars>>

NextClassify == Classify

SpecClassify == InitClassify /\ [][NextClassify]_vars

\* C11: classification is total and first-match by priority: every 3-letter
\* root gets exactly one category; a root whose 2nd and 3rd radicals are
\* identical is Doubled-Radical whatever its letters are, and any other root
\* with a glottal radical gets the Glottal category of its first glottal
\* position even if it also holds weak letters.
C11_ClassifyTotalFirstMatch ==
  Returned("classify") /\ Len(root) = 3 =>
    /\ result \in Categories
    /\ root[2] = root[3] => result = "Doubled-Radical"
    /\ root[2] # root[3] /\ IsGlottal(root[1]) => result = "Glottal-Initial"
    /\ root[2] # root[3] /\ ~IsGlottal(root[1]) /\ IsGlottal(root[2]) =>
         result = "Glottal-Medial"
    /\ /\ root[2] # root[3]
       /\ ~IsGlottal(root[1])
       /\ ~IsGlottal(root[2])
       /\ IsGlottal(root[3])
       => result = "Glottal-Final"

\* a root with a weak first radical and a glottal second one was classified
\* by its glottal letter
C11_Witness ==
  /\ Returned("classify")
  /\ Len(root) = 3
  /\ IsWeak(root[1])
  /\ IsGlottal(root[2])
  /\ IsWeak(root[3])
  /\ result = "Glottal-Medial"

\* C12: the rules give the scenario roots the categories the scenarios
\* state: k-t-b Regular, '-k-l Glottal-Initial, q-a-l Weak-Medial-Waw and
\* b-q-y Weak-Final-Ya.
C12_ScenarioCategories ==
  Returned("classify") =>
    /\ root = KTB => result = "Regular"
    /\ root = AKL => result = "Glottal-Initial"
    /\ root = QAL => result = "Weak-Medial-Waw"
    /\ root = BQY => result = "Weak-Final-Ya"

(***************************************************************************)
(* HashTable: the pattern store                                            *)
(***************************************************************************)
\* the default bucket count of the constructor
DefaultSize == 101

MaxTableSize == 3

\* the absent value: null, and find's undefined
Null == <<>>

\* the loop of hash, from character i on; JavaScript counts i from 0 and
\* weighs the character by i + 1
RECURSIVE hashFrom(_, _, _, _)
hashFrom(k, i, total, size) ==
  IF i > Len(k) THEN total
  ELSE hashFrom(k, i + 1, (total + k[i] * i) % size, size)

hash(t, k) == hashFrom(k, 1, 0, t.size)

\* the bucket of key k; the buckets array is indexed from 0
Bucket(t, k) == t.buckets[hash(t, k) + 1]

\* Array.findIndex(s => s.id === id) counted from 1, 0 when there is none
FindIndex(b, id) ==
  LET hits == {i \in 1..Len(b) : b[i].id = id}
  IN IF hits = {} THEN 0 ELSE Least(hits)

\* new HashTable(size)
NewTable(size) == [size |-> size, buckets |-> [i \in 1..size |-> <<>>]]

\* a put that never looks for the id: the scheme is always pushed
putAlwaysPush(t, scheme) ==
  [t EXCEPT !.buckets[hash(t, scheme.id) + 1] = Append(@, scheme)]

\* a put that drops the stored scheme and pushes the new one at the end
putMoveToEnd(t, scheme) ==
  [t EXCEPT !.buckets[hash(t, scheme.id) + 1] =
     Append(SelectSeq(@, LAMBDA s : s.id # scheme.id), scheme)]

put(t, scheme) ==
  LET index == hash(t, scheme.id) + 1
      existingIndex == FindIndex(t.buckets[index], scheme.id)
  IN IF existingIndex # 0
     THEN [t EXCEPT !.buckets[index][existingIndex] = scheme]
     ELSE [t EXCEPT !.buckets[index] = Append(@, scheme)]

\* the error thrown by a call of find on undefined
TypeError == <<"TypeError">>

\* this.buckets[index] is undefined when the buckets array is shorter than
\* size, and find is then called on undefined
get(t, id) ==
  IF hash(t, id) + 1 > Len(t.buckets) THEN TypeError
  ELSE LET b == Bucket(t, id)
       IN IF FindIndex(b, id) = 0 THEN Null ELSE b[FindIndex(b, id)]

\* a remove that empties the whole bucket of the id
removeBucket(t, id) == [t EXCEPT !.buckets[hash(t, id) + 1] = <<>>]

remove(t, id) ==
  [t EXCEPT !.buckets[hash(t, id) + 1] = SelectSeq(@, LAMBDA s : s.id # id)]

\* Array.flat(): the buckets concatenated in index order
RECURSIVE flatFrom(_, _)
flatFrom(bs, i) == IF i > Len(bs) THEN <<>> ELSE bs[i] \o flatFrom(bs, i + 1)

getAll(t) == flatFrom(t.buckets, 1)

\* the scheme ids of the documented pattern table that the model uses
IdFaal == <<FA, AIN, LAM>>
IdFaail == <<FA, ALEF, AIN, LAM>>
IdMafool == <<MIM, FA, AIN, WAW, LAM>>
IdYafal == <<YEH, FA, AIN, LAM>>

SchemeIds == {IdFaal, IdFaail, IdMafool, IdYafal}

\* MorphologicalScheme; an id can be saved with either template
Schemes ==
  [id : SchemeIds, pattern : {PatFaala, PatFaail}, transformationRule : {<<>>}]

TableSizes == (1..MaxTableSize) \cup {DefaultSize}

InitTable ==
  /\ pc = "idle"
  /\ op = "new"
  /\ root = <<>>
  /\ pattern = <<>>
  /\ word = <<>>
  /\ patterns = <<>>
  /\ text = <<>>
  /\ result = <<>>
  /\ key = <<>>
  /\ \E size \in TableSizes : table = NewTable(size)
  /\ tableBefore = table
  /\ lastPut = [id \in SchemeIds |-> Null]
  /\ putOrder = <<>>
  /\ restored = <<>>
  /\ NoTree
  /\ NoApp

\* a copy read back from the store is dropped when the store is used again
Put ==
  \E scheme \in Schemes :
    /\ op' = "put"
    /\ key' = scheme.id
    /\ tableBefore' = table
    /\ table' = put(table, scheme)
    /\ lastPut' = [lastPut EXCEPT ![scheme.id] = scheme]
    /\ putOrder' = IF lastPut[scheme.id] = Null
                   THEN Append(putOrder, scheme.id)
                   ELSE putOrder
    /\ restored' = <<>>
    /\ UNCHANGED <<pc, root, pattern, word, patterns, text, result, tree,
                   treeBefore, inserted, appVars>>

Remove ==
  \E id \in SchemeIds :
    /\ op' = "remove"
    /\ key' = id
    /\ tableBefore' = table
    /\ table' = remove(table, id)
    /\ lastPut' = [lastPut EXCEPT ![id] = Null]
    /\ putOrder' = SelectSeq(putOrder, LAMBDA k : k # id)
    /\ restored' = <<>>
    /\ UNCHANGED <<pc, root, pattern, word, patterns, text, result, tree,
                   treeBefore, inserted, appVars>>

NextTable == Put \/ Remove

SpecTable == InitTable /\ [][NextTable]_vars

IdsOf(ss) == [i \in 1..Len(ss) |-> ss[i].id]

\* C13: after any sequence of put and remove, getAll never holds two
\* schemes with the same id.
C13_OneSchemePerId ==
  \A i, j \in 1..Len(getAll(table)) :
    i # j => getAll(table)[i].id # getAll(table)[j].id

\* a put has replaced the scheme stored under an id by another one, in a
\* bucket that holds a second scheme
C13_Witness ==
  /\ op = "put"
  /\ get(tableBefore, key) # Null
  /\ get(table, key) # get(tableBefore, key)
  /\ Len(Bucket(table, key)) >= 2
  /\ Len(getAll(table)) = Len(getAll(tableBefore))

\* C14: get(id) returns the scheme most recently put under id if the id was
\* not removed since, and null otherwise; a put or remove of one id leaves
\* get unchanged for every other id, also in the same bucket.
C14_GetLatestPut ==
  /\ \A id \in SchemeIds : get(table, id) = lastPut[id]
  /\ op \in {"put", "remove"} =>
       \A id \in SchemeIds \ {key} : get(table, id) = get(tableBefore, id)

\* an id was removed from a bucket it shared with another id, which is
\* still found
C14_Witness ==
  /\ op = "remove"
  /\ get(tableBefore, key) # Null
  /\ get(table, key) = Null
  /\ table.size > 1
  /\ \E id \in SchemeIds \ {key} :
       /\ hash(table, id) = hash(table, key)
       /\ get(table, id) # Null

\* C15 as stated: getAll returns the stored schemes in the order in which
\* their ids were first inserted.
C15_GetAllInInsertionOrder == IdsOf(getAll(table)) = putOrder

Position(seq, x) == Least({i \in 1..Len(seq) : seq[i] = x})

\* C15 amended: getAll returns the stored schemes bucket by bucket, in
\* ascending order of the hash of their ids, and only within one bucket in
\* the order in which the ids were first inserted; a validation over this
\* listing tries the patterns in that order.
C15_GetAllInBucketOrder ==
  LET ids == IdsOf(getAll(table))
  IN /\ {ids[i] : i \in 1..Len(ids)} = {putOrder[i] : i \in 1..Len(putOrder)}
     /\ Len(ids) = Len(putOrder)
     /\ \A i, j \in 1..Len(ids) :
          i < j =>
            \/ hash(table, ids[i]) < hash(table, ids[j])
            \/ /\ hash(table, ids[i]) = hash(table, ids[j])
               /\ Position(putOrder, ids[i]) < Position(putOrder, ids[j])

\* the listing differs from the insertion order, and one bucket holds two
\* schemes
C15_Witness ==
  /\ IdsOf(getAll(table)) # putOrder
  /\ Len(putOrder) >= 3
  /\ \E i \in 1..Len(table.buckets) : Len(table.buckets[i]) >= 2

(***************************************************************************)
(* AVLTree: the root index                                                 *)
(***************************************************************************)
MaxHistory == 1

\* a < b on JavaScript strings: code unit by code unit, a proper prefix
\* first
StrLess(a, b) ==
  \/ \E i \in 1..Len(a) :
       /\ i <= Len(b)
       /\ \A j \in 1..(i - 1) : a[j] = b[j]
       /\ a[i] < b[i]
  \/ /\ Len(a) < Len(b)
     /\ \A j \in 1..Len(a) : a[j] = b[j]

Max(a, b) == IF a >= b THEN a ELSE b

\* new AVLNode(data)
NewNode(data) ==
  [data |-> data, left |-> Null, right |-> Null, height |-> 1]

getHeight(node) == IF node = Null THEN 0 ELSE node.height

getBalance(node) ==
  IF node = Null THEN 0 ELSE getHeight(node.left) - getHeight(node.right)

rotateRight(y) ==
  LET x == y.left
      T2 == x.right
      y2 == [y EXCEPT !.left = T2,
                      !.height = Max(getHeight(T2), getHeight(y.right)) + 1]
  IN [x EXCEPT !.right = y2,
               !.height = Max(getHeight(x.left), getHeight(y2)) + 1]

rotateLeft(x) ==
  LET y == x.right
      T2 == y.left
      x2 == [x EXCEPT !.right = T2,
                      !.height = Max(getHeight(x.left), getHeight(T2)) + 1]
  IN [y EXCEPT !.left = x2,
               !.height = Max(getHeight(x2), getHeight(y.right)) + 1]

\* node?.data.root || ''
KeyOrEmpty(node) == IF node = Null THEN <<>> ELSE node.data.root

\* the tail of insertNode: the height update and the four rotation cases
insertRebalance(n, data) ==
  LET node == [n EXCEPT !.height =
                 1 + Max(getHeight(n.left), getHeight(n.right))]
      balance == getBalance(node)
  IN IF balance > 1 /\ StrLess(data.root, KeyOrEmpty(node.left))
       THEN rotateRight(node)
     ELSE IF balance < -1 /\ StrLess(KeyOrEmpty(node.right), data.root)
       THEN rotateLeft(node)
     ELSE IF balance > 1 /\ StrLess(KeyOrEmpty(node.left), data.root)
       THEN rotateRight([node EXCEPT !.left = rotateLeft(node.left)])
     ELSE IF balance < -1 /\ StrLess(data.root, KeyOrEmpty(node.right))
       THEN rotateLeft([node EXCEPT !.right = rotateRight(node.right)])
     ELSE node

\* an insertion that keeps the heights but never rotates
RECURSIVE insertNodeNoRotation(_, _)
insertNodeNoRotation(node, data) ==
  IF node = Null THEN NewNode(data)
  ELSE IF StrLess(data.root, node.data.root)
    THEN LET n == [node EXCEPT !.left = insertNodeNoRotation(@, data)]
         IN [n EXCEPT !.height =
               1 + Max(getHeight(n.left), getHeight(n.right))]
  ELSE IF StrLess(node.data.root, data.root)
    THEN LET n == [node EXCEPT !.right = insertNodeNoRotation(@, data)]
         IN [n EXCEPT !.height =
               1 + Max(getHeight(n.left), getHeight(n.right))]
  ELSE node

\* an insertion that overwrites the record of a key it finds
RECURSIVE insertNodeReplace(_, _)
insertNodeReplace(node, data) ==
  IF node = Null THEN NewNode(data)
  ELSE IF StrLess(data.root, node.data.root)
    THEN insertRebalance(
           [node EXCEPT !.left = insertNodeReplace(@, data)], data)
  ELSE IF StrLess(node.data.root, data.root)
    THEN insertRebalance(
           [node EXCEPT !.right = insertNodeReplace(@, data)], data)
  ELSE [node EXCEPT !.data = data]

RECURSIVE insertNode(_, _)
insertNode(node, data) ==
  IF node = Null THEN NewNode(data)
  ELSE IF StrLess(data.root, node.data.root)
    THEN insertRebalance([node EXCEPT !.left = insertNode(@, data)], data)
  ELSE IF StrLess(node.data.root, data.root)
    THEN insertRebalance([node EXCEPT !.right = insertNode(@, data)], data)
  ELSE node

\* insert: the empty string is ignored
insert(t, rootStr) ==
  IF rootStr = <<>> THEN t
  ELSE insertNode(t, [root |-> rootStr, derivedWords |-> <<>>])

\* a successor search that does not walk down to the left
getMinValueNodeShallow(node) == node

RECURSIVE getMinValueNode(_)
getMinValueNode(node) ==
  IF node.left # Null THEN getMinValueNode(node.left) ELSE node

\* the tail of deleteNode: the height update and the four rotation cases
deleteRebalance(n) ==
  LET node == [n EXCEPT !.height =
                 1 + Max(getHeight(n.left), getHeight(n.right))]
      balance == getBalance(node)
  IN IF balance > 1 /\ getBalance(node.left) >= 0 THEN rotateRight(node)
     ELSE IF balance > 1 /\ getBalance(node.left) < 0
       THEN rotateRight([node EXCEPT !.left = rotateLeft(node.left)])
     ELSE IF balance < -1 /\ getBalance(node.right) <= 0
       THEN rotateLeft(node)
     ELSE IF balance < -1 /\ getBalance(node.right) > 0
       THEN rotateLeft([node EXCEPT !.right = rotateRight(node.right)])
     ELSE node

\* a deletion that replaces the node by one child also when it has two
RECURSIVE deleteNodeOneChild(_, _)
deleteNodeOneChild(node, rootStr) ==
  IF node = Null THEN Null
  ELSE LET n ==
             IF StrLess(rootStr, node.data.root)
               THEN [node EXCEPT !.left = deleteNodeOneChild(@, rootStr)]
             ELSE IF StrLess(node.data.root, rootStr)
               THEN [node EXCEPT !.right = deleteNodeOneChild(@, rootStr)]
             ELSE IF node.left # Null THEN node.left ELSE node.right
       IN IF n = Null THEN Null ELSE deleteRebalance(n)

RECURSIVE deleteNode(_, _)
deleteNode(node, rootStr) ==
  IF node = Null THEN Null
  ELSE LET n ==
             IF StrLess(rootStr, node.data.root)
               THEN [node EXCEPT !.left = deleteNode(@, rootStr)]
             ELSE IF StrLess(node.data.root, rootStr)
               THEN [node EXCEPT !.right = deleteNode(@, rootStr)]
             ELSE IF node.left = Null \/ node.right = Null
               THEN (IF node.left # Null THEN node.left ELSE node.right)
             ELSE LET temp == getMinValueNode(node.right)
                  IN [node EXCEPT
                        !.data = temp.data,
                        !.right = deleteNode(@, temp.data.root)]
       IN IF n = Null THEN Null ELSE deleteRebalance(n)

delete(t, rootStr) == deleteNode(t, rootStr)

RECURSIVE search(_, _)
search(current, rootStr) ==
  IF current = Null THEN Null
  ELSE IF rootStr = current.data.root THEN current.data
  ELSE search(IF StrLess(rootStr, current.data.root)
                THEN current.left ELSE current.right, rootStr)

RECURSIVE inOrderTraversal(_)
inOrderTraversal(node) ==
  IF node = Null THEN <<>>
  ELSE inOrderTraversal(node.left) \o <<node.data>>
         \o inOrderTraversal(node.right)

getAllRoots(t) == inOrderTraversal(t)

\* getNodesForVisual flattened: the balance and height reported per node
RECURSIVE getNodesForVisual(_)
getNodesForVisual(node) ==
  IF node = Null THEN {}
  ELSE {[name |-> node.data.root, balance |-> getBalance(node),
         height |-> node.height]}
         \cup getNodesForVisual(node.left) \cup getNodesForVisual(node.right)

\* deserialize of a text JSON.parse rejects: the catch branch
deserializeMalformed(t) == Null

\* search hands out the stored record itself, so a caller that pushes a
\* DerivedWord on its derivedWords grows the stored history
RECURSIVE pushDerived(_, _, _)
pushDerived(node, rootStr, derived) ==
  IF node = Null THEN Null
  ELSE IF rootStr = node.data.root
    THEN [node EXCEPT !.data.derivedWords = Append(@, derived)]
  ELSE IF StrLess(rootStr, node.data.root)
    THEN [node EXCEPT !.left = pushDerived(@, rootStr, derived)]
  ELSE [node EXCEPT !.right = pushDerived(@, rootStr, derived)]

\* the keys given to the index: the roots of the documented scenarios, a
\* two-letter string and the empty string
TreeKeys == {KTB, QAL, AKL, BQY, <<KAF, TEH>>, <<>>}

InitTree ==
  /\ pc = "idle"
  /\ op = "new"
  /\ root = <<>>
  /\ pattern = <<>>
  /\ word = <<>>
  /\ patterns = <<>>
  /\ text = <<>>
  /\ result = <<>>
  /\ key = <<>>
  /\ NoTable
  /\ restored = <<>>
  /\ NoApp
  /\ tree = Null
  /\ treeBefore = Null
  /\ inserted = {}

treeFrame ==
  <<pc, root, pattern, word, patterns, text, result, table, tableBefore,
    lastPut, putOrder, restored, appVars>>

Insert ==
  \E k \in TreeKeys :
    /\ op' = "insert"
    /\ key' = k
    /\ treeBefore' = tree
    /\ tree' = insert(tree, k)
    /\ inserted' = inserted \cup {k}
    /\ UNCHANGED treeFrame

Delete ==
  \E k \in TreeKeys :
    /\ op' = "delete"
    /\ key' = k
    /\ treeBefore' = tree
    /\ tree' = delete(tree, k)
    /\ inserted' = inserted \ {k}
    /\ UNCHANGED treeFrame

RecordDerivation ==
  \E k \in TreeKeys :
    /\ search(tree, k) # Null
    /\ Len(search(tree, k).derivedWords) < MaxHistory
    /\ op' = "derive"
    /\ key' = k
    /\ treeBefore' = tree
    /\ tree' = pushDerived(tree, k,
                 [word |-> generateWord(k, PatFaail), frequency |-> 1])
    /\ UNCHANGED inserted
    /\ UNCHANGED treeFrame

Deserialize ==
  /\ op' = "deserialize"
  /\ key' = <<>>
  /\ treeBefore' = tree
  /\ tree' = deserializeMalformed(tree)
  /\ UNCHANGED inserted
  /\ UNCHANGED treeFrame

NextTree == Insert \/ Delete \/ RecordDerivation

SpecTree == InitTree /\ [][NextTree]_vars

NextTreeIO == Insert \/ Delete \/ RecordDerivation \/ Deserialize

SpecTreeIO == InitTree /\ [][NextTreeIO]_vars

RootsOf(ds) == [i \in 1..Len(ds) |-> ds[i].root]

RECURSIVE Subtrees(_)
Subtrees(node) ==
  IF node = Null THEN {}
  ELSE {node} \cup Subtrees(node.left) \cup Subtrees(node.right)

\* C16 as stated: search(k) returns the record of k if and only if k was
\* handed to insert and not to delete since, and null otherwise.
C16_SearchFindsInserted ==
  \A k \in TreeKeys :
    /\ k \in inserted => search(tree, k) # Null /\ search(tree, k).root = k
    /\ k \notin inserted => search(tree, k) = Null

\* C16 amended: for every non-empty key k, search(k) returns the record of
\* k if and only if k was inserted and not deleted since, and null
\* otherwise; insert ignores the empty string, so search of the empty
\* string always returns null.
C16_SearchFindsInsertedNonEmpty ==
  /\ \A k \in TreeKeys \ {<<>>} :
       /\ k \in inserted =>
            search(tree, k) # Null /\ search(tree, k).root = k
       /\ k \notin inserted => search(tree, k) = Null
  /\ search(tree, <<>>) = Null

\* the key at the top of the index, a node with two children, was deleted
C16_Witness ==
  /\ op = "delete"
  /\ treeBefore # Null
  /\ treeBefore.data.root = key
  /\ treeBefore.left # Null
  /\ treeBefore.right # Null
  /\ search(tree, key) = Null
  /\ Cardinality(inserted) >= 3

\* strictly ascending string order
Ascending(ks) == \A i \in 1..(Len(ks) - 1) : StrLess(ks[i], ks[i + 1])

\* C17 as stated: getAllRoots returns exactly the keys handed to insert and
\* not to delete since, each once, in strictly ascending string order.
C17_AllRootsAreInserted ==
  LET ks == RootsOf(getAllRoots(tree))
  IN /\ {ks[i] : i \in 1..Len(ks)} = inserted
     /\ Len(ks) = Cardinality(inserted)
     /\ Ascending(ks)

\* C17 amended: getAllRoots returns exactly the non-empty keys that were
\* inserted and not since deleted, each once, in strictly ascending string
\* order; the empty string is never stored.
C17_AllRootsAreInsertedNonEmpty ==
  LET ks == RootsOf(getAllRoots(tree))
  IN /\ {ks[i] : i \in 1..Len(ks)} = inserted \ {<<>>}
     /\ Len(ks) = Cardinality(inserted \ {<<>>})
     /\ Ascending(ks)
     /\ \A n \in Subtrees(tree) :
          /\ \A m \in Subtrees(n.left) : StrLess(m.data.root, n.data.root)
          /\ \A m \in Subtrees(n.right) : StrLess(n.data.root, m.data.root)

\* a node with two children was deleted whose successor lay below the left
\* of its right child, and three keys are left
C17_Witness ==
  /\ op = "delete"
  /\ treeBefore # Null
  /\ treeBefore.data.root = key
  /\ treeBefore.left # Null
  /\ treeBefore.right # Null
  /\ treeBefore.right.left # Null
  /\ Len(getAllRoots(tree)) >= 3

\* C18: after any sequence of insert and delete every node's stored height
\* is 1 plus the larger height of its subtrees and every balance factor is
\* -1, 0 or 1, so getNodesForVisual reports no node with |balance| > 1.
C18_HeightsAndBalance ==
  /\ \A n \in Subtrees(tree) :
       /\ n.height = 1 + Max(getHeight(n.left), getHeight(n.right))
       /\ getBalance(n) \in {-1, 0, 1}
  /\ \A v \in getNodesForVisual(tree) : v.balance \in {-1, 0, 1}

\* an insertion rotated the top of the index: another key is at the top
C18_Witness ==
  /\ op = "insert"
  /\ treeBefore # Null
  /\ tree.data.root # treeBefore.data.root
  /\ tree.left # Null
  /\ tree.right # Null

\* C19: a stored root disappears from the index only through delete of that
\* very key: no insert, no delete of another key and no deserialize of
\* malformed text makes a stored root unfindable.
C19_NoImplicitRemoval ==
  \A k \in TreeKeys :
    search(treeBefore, k) # Null /\ ~(op = "delete" /\ key = k) =>
      search(tree, k) # Null

\* C20: inserting a root that is already stored changes nothing: the record
\* keeps its letters and its derivation history, and getAllRoots and the
\* tree shape are unchanged.
C20_InsertExistingChangesNothing ==
  op = "insert" /\ search(treeBefore, key) # Null =>
    /\ search(tree, key) = search(treeBefore, key)
    /\ getAllRoots(tree) = getAllRoots(treeBefore)
    /\ tree = treeBefore

\* a root stored below the top of the index, with a derivation in its
\* history, was inserted again
C20_Witness ==
  /\ op = "insert"
  /\ search(treeBefore, key) # Null
  /\ search(treeBefore, key).derivedWords # <<>>
  /\ treeBefore.data.root # key
  /\ search(tree, key).derivedWords # <<>>

(***************************************************************************)
(* The length of the stored roots                                          *)
(***************************************************************************)
\* C21: every root stored in the index has exactly 3 characters, whatever
\* keys were handed to insert.
C21_StoredRootsHaveThreeChars ==
  \A i \in 1..Len(getAllRoots(tree)) : Len(getAllRoots(tree)[i].root) = 3

(***************************************************************************)
(* JSON text                                                               *)
(* A text is the sequence of its tokens.  A property name is a string of   *)
(* the model; a string value is a sequence of code points, as everywhere   *)
(* else.                                                                   *)
(***************************************************************************)
Punct(s) == [t |-> s]

StrTok(v) == [t |-> "string", v |-> v]

NumTok(n) == [t |-> "number", v |-> n]

NullTok == [t |-> "null"]

\* the texts of the items, separated by commas
RECURSIVE joinFrom(_, _)
joinFrom(items, i) ==
  IF i > Len(items) THEN <<>>
  ELSE IF i = Len(items) THEN items[i]
  ELSE items[i] \o <<Punct(",")>> \o joinFrom(items, i + 1)

stringifyArray(items) == <<Punct("[")>> \o joinFrom(items, 1) \o <<Punct("]")>>

stringifyObject(members) ==
  <<Punct("{")>> \o joinFrom(members, 1) \o <<Punct("}")>>

Member(name, valueText) == <<StrTok(name), Punct(":")>> \o valueText

\* JSON.stringify of a DerivedWord: the properties that are set, in the
\* order in which the object literal lists them
stringifyDerived(dw) ==
  stringifyObject(<<Member("word", <<StrTok(dw.word)>>),
                    Member("frequency", <<NumTok(dw.frequency)>>)>>)

\* a stringify that writes every history as the empty array
stringifyDataNoHistory(d) ==
  stringifyObject(<<Member("root", <<StrTok(d.root)>>),
                    Member("derivedWords", stringifyArray(<<>>))>>)

\* JSON.stringify of a RootNodeData
stringifyData(d) ==
  stringifyObject(
    <<Member("root", <<StrTok(d.root)>>),
      Member("derivedWords",
             stringifyArray([i \in 1..Len(d.derivedWords) |->
                               stringifyDerived(d.derivedWords[i])]))>>)

\* JSON.stringify of an AVLNode or null: data, left, right, height
RECURSIVE stringifyNode(_)
stringifyNode(node) ==
  IF node = Null THEN <<NullTok>>
  ELSE stringifyObject(<<Member("data", stringifyData(node.data)),
                         Member("left", stringifyNode(node.left)),
                         Member("right", stringifyNode(node.right)),
                         Member("height", <<NumTok(node.height)>>)>>)

\* JSON.stringify of a MorphologicalScheme
stringifyScheme(s) ==
  stringifyObject(
    <<Member("id", <<StrTok(s.id)>>),
      Member("pattern", <<StrTok(s.pattern)>>),
      Member("transformationRule", <<StrTok(s.transformationRule)>>)>>)

\* JSON.stringify of the buckets: an array of arrays of schemes
stringifyBuckets(bs) ==
  stringifyArray([i \in 1..Len(bs) |->
                    stringifyArray([j \in 1..Len(bs[i]) |->
                                      stringifyScheme(bs[i][j])])])

\* the outcome of a parse that met an unexpected token or the end of the
\* text: JSON.parse throws a SyntaxError
SyntaxError == [ok |-> FALSE, kind |-> "error", value |-> Null, next |-> 0]

Parsed(kind, value, next) ==
  [ok |-> TRUE, kind |-> kind, value |-> value, next |-> next]

\* the value that starts at token i, the elements of an array from token i
\* on, and the members of an object from token i on
RECURSIVE parseValue(_, _)
RECURSIVE parseElements(_, _, _)
RECURSIVE parseMembers(_, _, _)
parseValue(toks, i) ==
  IF i > Len(toks) THEN SyntaxError
  ELSE IF toks[i].t = "null" THEN Parsed("null", Null, i + 1)
  ELSE IF toks[i].t \in {"string", "number"}
    THEN Parsed(toks[i].t, toks[i].v, i + 1)
  ELSE IF toks[i].t = "["
    THEN IF i < Len(toks) /\ toks[i + 1].t = "]"
         THEN Parsed("array", <<>>, i + 2)
         ELSE parseElements(toks, i + 1, <<>>)
  ELSE IF toks[i].t = "{"
    THEN IF i < Len(toks) /\ toks[i + 1].t = "}"
         THEN Parsed("object", <<>>, i + 2)
         ELSE parseMembers(toks, i + 1, <<>>)
  ELSE SyntaxError

parseElements(toks, i, acc) ==
  LET e == parseValue(toks, i)
  IN IF ~e.ok \/ e.next > Len(toks) THEN SyntaxError
     ELSE IF toks[e.next].t = ","
       THEN parseElements(toks, e.next + 1, Append(acc, e.value))
     ELSE IF toks[e.next].t = "]"
       THEN Parsed("array", Append(acc, e.value), e.next + 1)
     ELSE SyntaxError

\* the object of the members read, each a pair of a name and a value; a
\* repeated property name keeps its last value
ObjectOf(members) ==
  [name \in {members[k][1] : k \in 1..Len(members)} |->
     members[Greatest({k \in 1..Len(members) : members[k][1] = name})][2]]

parseMembers(toks, i, acc) ==
  IF i + 1 > Len(toks) \/ toks[i].t # "string" \/ toks[i + 1].t # ":"
  THEN SyntaxError
  ELSE LET e == parseValue(toks, i + 2)
       IN IF ~e.ok \/ e.next > Len(toks) THEN SyntaxError
          ELSE IF toks[e.next].t = ","
            THEN parseMembers(toks, e.next + 1,
                              Append(acc, <<toks[i].v, e.value>>))
          ELSE IF toks[e.next].t = "}"
            THEN Parsed("object",
                        ObjectOf(Append(acc, <<toks[i].v, e.value>>)),
                        e.next + 1)
          ELSE SyntaxError

\* JSON.parse: one value and nothing after it
JSONparse(json) ==
  LET r == parseValue(json, 1)
  IN IF r.ok /\ r.next = Len(json) + 1 THEN r ELSE SyntaxError

(***************************************************************************)
(* HashTable: serialize and deserialize                                    *)
(***************************************************************************)
\* HashTable.serialize
serializeTable(t) == stringifyBuckets(t.buckets)

\* a deserialize whose catch branch empties the store, as the root index
\* does
deserializeTableClear(t, json) ==
  LET data == JSONparse(json)
  IN IF ~data.ok THEN [t EXCEPT !.buckets = [i \in 1..t.size |-> <<>>]]
     ELSE IF data.kind = "array" THEN [t EXCEPT !.buckets = data.value]
     ELSE t

\* HashTable.deserialize: the parsed array replaces buckets, size stays as
\* constructed; a SyntaxError is caught and logged
deserializeTable(t, json) ==
  LET data == JSONparse(json)
  IN IF data.ok /\ data.kind = "array" THEN [t EXCEPT !.buckets = data.value]
     ELSE t

\* texts that JSON.parse rejects and texts whose value is not an array
NonArrayTexts ==
  {<<>>,
   <<Punct("{")>>,
   <<Punct("[")>>,
   <<Punct("["), Punct("]"), Punct("]")>>,
   <<NullTok>>,
   <<NumTok(DefaultSize)>>,
   <<StrTok(IdFaal)>>,
   <<Punct("{"), Punct("}")>>,
   stringifyScheme([id |-> IdFaal, pattern |-> PatFaala,
                    transformationRule |-> <<>>])}

tableFrame ==
  <<pc, root, pattern, word, patterns, text, result, tree, treeBefore,
    inserted, appVars>>

\* the bucket counts of the stores that are serialized and read back
SmallTableSizes == 1..MaxTableSize

InitTableIO ==
  /\ InitTable
  /\ table.size \in SmallTableSizes

\* u = new HashTable(size); u.deserialize(table.serialize())
Restore ==
  \E size \in SmallTableSizes :
    /\ op' = "restore"
    /\ key' = <<>>
    /\ restored' = deserializeTable(NewTable(size), serializeTable(table))
    /\ UNCHANGED <<table, tableBefore, lastPut, putOrder>>
    /\ UNCHANGED tableFrame

\* table.deserialize(json) for a text that does not hold an array
DeserializeText ==
  \E json \in NonArrayTexts :
    /\ op' = "deserialize"
    /\ key' = <<>>
    /\ tableBefore' = table
    /\ table' = deserializeTable(table, json)
    /\ restored' = <<>>
    /\ UNCHANGED <<lastPut, putOrder>>
    /\ UNCHANGED tableFrame

NextTableIO == Put \/ Remove \/ Restore \/ DeserializeText

SpecTableIO == InitTableIO /\ [][NextTableIO]_vars

\* C26: after u.deserialize(t.serialize()), for tables constructed with any
\* bucket counts, u.get(id) = t.get(id) for every identifier.
C26_RestoredGetsAgree ==
  op = "restore" => \A id \in SchemeIds : get(restored, id) = get(table, id)

\* C27: deserialize of a text that is not valid JSON, or whose value is not
\* an array, leaves get and getAll as they were.
C27_BadTextKeepsContents ==
  op = "deserialize" =>
    /\ getAll(table) = getAll(tableBefore)
    /\ \A id \in SchemeIds : get(table, id) = get(tableBefore, id)

\* a text was rejected by a store that holds two schemes
C27_Witness ==
  /\ op = "deserialize"
  /\ Len(getAll(table)) >= 2
  /\ \E id \in SchemeIds : get(table, id) # Null

(***************************************************************************)
(* AVLTree: serialize and deserialize                                      *)
(***************************************************************************)
\* AVLTree.serialize
serializeTree(t) == stringifyNode(t)

\* AVLTree.deserialize: the parsed value becomes the root, and a text that
\* JSON.parse rejects leaves the index empty
deserializeTree(json) ==
  LET data == JSONparse(json)
  IN IF data.ok THEN data.value ELSE Null

\* fresh = new AVLTree(); fresh.deserialize(tree.serialize()), and the
\* program goes on with fresh
RestoreTree ==
  /\ op' = "restore"
  /\ key' = <<>>
  /\ treeBefore' = tree
  /\ tree' = deserializeTree(serializeTree(tree))
  /\ UNCHANGED inserted
  /\ UNCHANGED treeFrame

NextTreeJSON == Insert \/ Delete \/ RecordDerivation \/ RestoreTree

SpecTreeJSON == InitTree /\ [][NextTreeJSON]_vars

\* C22: the tree read back from its own serialization has the same
\* getAllRoots sequence, histories included, and the same search results;
\* through every later insert and delete the listing stays ascending, the
\* heights exact and the balance factors within -1..1.
C22_SerializeRoundTrips ==
  /\ op = "restore" =>
       /\ getAllRoots(tree) = getAllRoots(treeBefore)
       /\ \A k \in TreeKeys : search(tree, k) = search(treeBefore, k)
  /\ Ascending(RootsOf(getAllRoots(tree)))
  /\ \A n \in Subtrees(tree) :
       /\ n.height = 1 + Max(getHeight(n.left), getHeight(n.right))
       /\ getBalance(n) \in -1..1

\* a tree of height 3 whose roots have histories was read back
C22_Witness ==
  /\ op = "restore"
  /\ getHeight(tree) >= 3
  /\ \E i \in 1..Len(getAllRoots(tree)) :
       Len(getAllRoots(tree)[i].derivedWords) >= 1

(***************************************************************************)
(* The App component                                                       *)
(* A handler runs atomically from one await to the next.  An invocation    *)
(* that is waiting for the network is a record of calls; pc names the      *)
(* await at which it waits.  The data of the backend is a version number,  *)
(* and a fetched list is the version that the backend held when it         *)
(* answered; 0 is the initial value of the state, before any answer.       *)
(***************************************************************************)
MaxCalls == 2

SPACE == 32

\* the characters String.prototype.trim removes that the inputs can hold
Whitespace == {SPACE}

RECURSIVE trimStart(_)
trimStart(s) ==
  IF s # <<>> /\ Head(s) \in Whitespace THEN trimStart(Tail(s)) ELSE s

RECURSIVE trimEnd(_)
trimEnd(s) ==
  IF s # <<>> /\ s[Len(s)] \in Whitespace
  THEN trimEnd(SubSeq(s, 1, Len(s) - 1))
  ELSE s

trim(s) == trimEnd(trimStart(s))

\* { id: '', pattern: '', rule: '' }
EmptyScheme == [id |-> <<>>, pattern |-> <<>>, rule |-> <<>>]

\* the useState initial values
InitialState ==
  [roots |-> 0, schemes |-> 0, verbTypes |-> 0, treeVisual |-> 0,
   loading |-> FALSE, genRoot |-> <<>>, genSchemeId |-> <<>>,
   genResult |-> Null, valWord |-> <<>>, valRoot |-> <<>>,
   valResult |-> Null, historyRoot |-> <<>>, historyByRoot |-> Null,
   historyLoading |-> FALSE, newScheme |-> EmptyScheme,
   editingSchemeId |-> Null]

\* an invocation of a handler: its argument, the editingSchemeId of the
\* render whose closure it is (kept for the handler that reads it after its
\* await, handleDeleteScheme), and, once it has called fetchData, the
\* number of that refresh, the answers the backend has given to its
\* requests (roots, schemes, visual, verb-types) and whether it has set
\* any state
Call(handler, arg, editing) ==
  [handler |-> handler, pc |-> "request", arg |-> arg, editing |-> editing,
   seq |-> 0, responses |-> <<>>, wrote |-> FALSE]

\* an invocation that has ended: "done", "failed" (fetchData caught an
\* error) or "rejected" (the handler's promise rejected)
Ended(call, how) ==
  [handler |-> call.handler, pc |-> how, arg |-> <<>>, editing |-> Null,
   seq |-> 0, responses |-> <<>>, wrote |-> call.wrote]

\* the invocation from the call of fetchData on: Promise.all is awaited
Refreshing(call, n) ==
  [call EXCEPT !.pc = "gets", !.arg = <<>>, !.editing = Null, !.seq = n,
               !.responses = <<>>]

Request(method, path, target, body) ==
  [method |-> method, path |-> path, target |-> target, body |-> body]

\* the four fetches of fetchData
GetRequests ==
  <<Request("GET", "/roots", <<>>, <<>>),
    Request("GET", "/schemes", <<>>, <<>>),
    Request("GET", "/roots/visual", <<>>, <<>>),
    Request("GET", "/verb-types", <<>>, <<>>)>>

\* the handlers whose request changes the data of the backend
Mutating == {"addRoot", "saveScheme", "deleteScheme", "generate", "validate"}

\* the early returns of the handlers
addRootRejectsUntrimmed(val) == Len(val) # 3

addRootRejects(val) == Len(trim(val)) # 3

saveSchemeRejects(ns) == ns.id = <<>> \/ ns.pattern = <<>>

generateRejects(a) == a.genRoot = <<>> \/ a.genSchemeId = <<>>

validateRejects(a) == a.valWord = <<>> \/ a.valRoot = <<>>

historyRejects(a) == a.historyRoot = <<>> \/ Len(trim(a.historyRoot)) # 3

\* what the inputs can hold: the add-root and history inputs take at most
\* 3 characters
RootInputs ==
  {<<>>, KTB, <<KAF, TEH, SPACE>>}

FormRoots == {<<>>, KTB}

FormWords == {<<>>, generateWord(KTB, PatFaail)}

FormSchemeIds == {<<>>, IdFaal, IdFaail}

FormPatterns == {<<>>, PatFaala}

\* the schemes listed by the scheme tab, each with its edit and delete
\* buttons
ListedSchemes ==
  [id : {IdFaal, IdFaail}, pattern : {PatFaala}, transformationRule : {<<>>}]

appFrame ==
  <<pc, root, pattern, word, patterns, text, result, table, tableBefore,
    lastPut, putOrder, restored, tree, treeBefore, inserted>>

\* the component after its first render and the effect that calls
\* fetchData
InitApp ==
  /\ pc = "idle"
  /\ op = "mount"
  /\ root = <<>>
  /\ pattern = <<>>
  /\ word = <<>>
  /\ patterns = <<>>
  /\ text = <<>>
  /\ result = <<>>
  /\ key = <<>>
  /\ NoTable
  /\ restored = <<>>
  /\ NoTree
  /\ app = [InitialState EXCEPT !.loading = TRUE]
  /\ calls = <<Refreshing(Call("mount", <<>>, Null), 1)>>
  /\ backend = 1
  /\ sent = GetRequests
  /\ started = 1
  /\ shown = [roots |-> 0, schemes |-> 0, treeVisual |-> 0, verbTypes |-> 0]

\* a handler that returns at its guard
Returns == sent' = <<>> /\ UNCHANGED <<app, calls, backend, started, shown>>

\* a handler that sets loading and sends its request
Sends(call, request) ==
  /\ Len(calls) < MaxCalls
  /\ app' = [app EXCEPT !.loading = TRUE]
  /\ calls' = Append(calls, call)
  /\ sent' = <<request>>
  /\ UNCHANGED <<backend, started, shown>>

\* a form input's onChange
Edits(a) ==
  /\ a # app
  /\ app' = a
  /\ op' = "edit"
  /\ key' = <<>>
  /\ sent' = <<>>
  /\ UNCHANGED <<calls, backend, started, shown>>
  /\ UNCHANGED appFrame

SetNewSchemeId == \E v \in FormSchemeIds : Edits([app EXCEPT !.newScheme.id = v])

SetNewSchemePattern ==
  \E v \in FormPatterns : Edits([app EXCEPT !.newScheme.pattern = v])

SetGenRoot == \E v \in FormRoots : Edits([app EXCEPT !.genRoot = v])

SetGenSchemeId == \E v \in {<<>>, IdFaal} : Edits([app EXCEPT !.genSchemeId = v])

SetValWord == \E v \in FormWords : Edits([app EXCEPT !.valWord = v])

SetValRoot == \E v \in FormRoots : Edits([app EXCEPT !.valRoot = v])

SetHistoryRoot ==
  \E v \in {<<>>, KTB, <<KAF, TEH, SPACE>>} : Edits([app EXCEPT !.historyRoot = v])

\* the cancel button of the edit mode
CancelEdit ==
  /\ app.editingSchemeId # Null
  /\ Edits([app EXCEPT !.editingSchemeId = Null, !.newScheme = EmptyScheme])

HandleEditScheme ==
  \E scheme \in ListedSchemes :
    /\ app.schemes # 0
    /\ Edits([app EXCEPT !.editingSchemeId = scheme.id,
                         !.newScheme = [id |-> scheme.id,
                                        pattern |-> scheme.pattern,
                                        rule |-> scheme.transformationRule]])

HandleAddRoot ==
  \E val \in RootInputs :
    /\ op' = "handleAddRoot"
    /\ key' = val
    /\ IF addRootRejects(val) THEN Returns
       ELSE Sends(Call("addRoot", val, Null),
                  Request("POST", "/roots", val, <<>>))
    /\ UNCHANGED appFrame

\* JSON.stringify({ ...newScheme, transformationRule: newScheme.rule })
SchemeBody(ns) ==
  [id |-> ns.id, pattern |-> ns.pattern, rule |-> ns.rule,
   transformationRule |-> ns.rule]

HandleSaveScheme ==
  /\ op' = "handleSaveScheme"
  /\ key' = <<>>
  /\ IF saveSchemeRejects(app.newScheme) THEN Returns
     ELSE Sends(Call("saveScheme", app.newScheme.id, Null),
                IF app.editingSchemeId # Null
                THEN Request("PUT", "/schemes", app.editingSchemeId,
                             SchemeBody(app.newScheme))
                ELSE Request("POST", "/schemes", <<>>,
                             SchemeBody(app.newScheme)))
  /\ UNCHANGED appFrame

HandleDeleteScheme ==
  \E scheme \in ListedSchemes :
    /\ app.schemes # 0
    /\ op' = "handleDeleteScheme"
    /\ key' = scheme.id
    /\ Sends(Call("deleteScheme", scheme.id, app.editingSchemeId),
             Request("DELETE", "/schemes", scheme.id, <<>>))
    /\ UNCHANGED appFrame

HandleGenerate ==
  /\ op' = "handleGenerate"
  /\ key' = <<>>
  /\ IF generateRejects(app) THEN Returns
     ELSE Sends(Call("generate", <<app.genRoot, app.genSchemeId>>, Null),
                Request("POST", "/generate",
                        <<app.genRoot, app.genSchemeId>>, <<>>))
  /\ UNCHANGED appFrame

HandleValidate ==
  /\ op' = "handleValidate"
  /\ key' = <<>>
  /\ IF validateRejects(app) THEN Returns
     ELSE Sends(Call("validate", <<app.valWord, app.valRoot>>, Null),
                Request("POST", "/validate", <<app.valWord, app.valRoot>>,
                        <<>>))
  /\ UNCHANGED appFrame

\* the history lookup sets historyLoading, not loading
HandleHistoryByRoot ==
  /\ op' = "handleHistoryByRoot"
  /\ key' = <<>>
  /\ IF historyRejects(app) THEN Returns
     ELSE /\ Len(calls) < MaxCalls
          /\ app' = [app EXCEPT !.historyLoading = TRUE]
          /\ calls' = Append(calls, Call("history", trim(app.historyRoot),
                                         Null))
          /\ sent' = <<Request("GET", "/roots", trim(app.historyRoot), <<>>)>>
          /\ UNCHANGED <<backend, started, shown>>
  /\ UNCHANGED appFrame

\* the state after the code that follows the handler's await, up to its
\* call of fetchData
resumed(a, call) ==
  IF call.handler = "saveScheme"
    THEN [a EXCEPT !.newScheme = EmptyScheme, !.editingSchemeId = Null]
  ELSE IF call.handler = "deleteScheme"
    THEN IF call.editing = call.arg
         THEN [a EXCEPT !.editingSchemeId = Null, !.newScheme = EmptyScheme]
         ELSE a
  ELSE IF call.handler = "generate" THEN [a EXCEPT !.genResult = call.arg]
  ELSE IF call.handler = "validate" THEN [a EXCEPT !.valResult = call.arg]
  ELSE a

\* the handler's request is answered (and, for generate and validate, its
\* body decoded): the handler runs on and calls fetchData, which sets
\* loading and sends its four requests
RequestSucceeds ==
  \E c \in 1..Len(calls) :
    /\ calls[c].pc = "request"
    /\ calls[c].handler \in Mutating
    /\ op' = IF calls[c].handler = "deleteScheme" THEN "deleteSchemeResumed"
             ELSE "step"
    /\ key' = IF calls[c].handler = "deleteScheme" THEN calls[c].arg
              ELSE <<>>
    /\ backend' = backend + 1
    /\ app' = [resumed(app, calls[c]) EXCEPT !.loading = TRUE]
    /\ started' = started + 1
    /\ calls' = [calls EXCEPT ![c] = Refreshing(@, started + 1)]
    /\ sent' = GetRequests
    /\ UNCHANGED shown
    /\ UNCHANGED appFrame

\* the fetch of a handler rejects, or the decoding of the body it awaits:
\* nothing catches it, and the rest of the handler does not run
RequestRejects ==
  \E c \in 1..Len(calls) :
    /\ calls[c].pc = "request"
    /\ calls[c].handler \in Mutating
    /\ op' = IF calls[c].handler = "deleteScheme" THEN "deleteSchemeRejected"
             ELSE "step"
    /\ key' = IF calls[c].handler = "deleteScheme" THEN calls[c].arg
              ELSE <<>>
    /\ calls' = [calls EXCEPT ![c] = Ended(@, "rejected")]
    /\ sent' = <<>>
    /\ UNCHANGED <<app, backend, started, shown>>
    /\ UNCHANGED appFrame

\* the history lookup is answered: the record of the root, or a status
\* that is not ok
HistoryAnswered ==
  \E c \in 1..Len(calls), ok \in BOOLEAN :
    /\ calls[c].pc = "request"
    /\ calls[c].handler = "history"
    /\ op' = "step"
    /\ key' = <<>>
    /\ app' = [app EXCEPT !.historyByRoot = IF ok THEN calls[c].arg ELSE Null,
                          !.historyLoading = FALSE]
    /\ calls' = [calls EXCEPT ![c] = Ended(@, "done")]
    /\ sent' = <<>>
    /\ UNCHANGED <<backend, started, shown>>
    /\ UNCHANGED appFrame

\* the fetch of the history lookup or the decoding of its body rejects:
\* the finally block runs
HistoryRejects ==
  \E c \in 1..Len(calls) :
    /\ calls[c].pc = "request"
    /\ calls[c].handler = "history"
    /\ op' = "step"
    /\ key' = <<>>
    /\ app' = [app EXCEPT !.historyLoading = FALSE]
    /\ calls' = [calls EXCEPT ![c] = Ended(@, "rejected")]
    /\ sent' = <<>>
    /\ UNCHANGED <<backend, started, shown>>
    /\ UNCHANGED appFrame

\* the backend answers the next request of a refresh with its data
ServerGet ==
  \E c \in 1..Len(calls) :
    /\ calls[c].pc = "gets"
    /\ Len(calls[c].responses) < Len(GetRequests)
    /\ op' = "step"
    /\ key' = <<>>
    /\ calls' = [calls EXCEPT ![c].responses = Append(@, backend)]
    /\ sent' = <<>>
    /\ UNCHANGED <<app, backend, started, shown>>
    /\ UNCHANGED appFrame

\* the catch and finally blocks of fetchData
Caught(c) ==
  /\ op' = "step"
  /\ key' = <<>>
  /\ app' = [app EXCEPT !.loading = FALSE]
  /\ calls' = [calls EXCEPT ![c] = Ended(@, "failed")]
  /\ sent' = <<>>
  /\ UNCHANGED <<backend, started, shown>>
  /\ UNCHANGED appFrame

\* one of the four fetches rejects, and with it Promise.all
PromiseAllRejects ==
  \E c \in 1..Len(calls) :
    /\ calls[c].pc = "gets"
    /\ Caught(c)

\* fetchData resumes at an await without setting state
Awaits(c, next) ==
  /\ op' = "step"
  /\ key' = <<>>
  /\ calls' = [calls EXCEPT ![c].pc = next]
  /\ sent' = <<>>
  /\ UNCHANGED <<app, backend, started, shown>>
  /\ UNCHANGED appFrame

\* fetchData resumes at an await and sets a piece of state
Sets(c, a, field, next) ==
  /\ op' = "step"
  /\ key' = <<>>
  /\ app' = a
  /\ shown' = [shown EXCEPT ![field] = calls[c].seq]
  /\ calls' = [calls EXCEPT ![c].pc = next, ![c].wrote = TRUE]
  /\ sent' = <<>>
  /\ UNCHANGED <<backend, started>>
  /\ UNCHANGED appFrame

\* all four responses are in: rRes.json() is awaited
PromiseAllResolves ==
  \E c \in 1..Len(calls) :
    /\ calls[c].pc = "gets"
    /\ Len(calls[c].responses) = Len(GetRequests)
    /\ Awaits(c, "rRes.json")

\* setRoots(normalizedRoots), then sRes.json() is awaited
DecodeRoots ==
  \E c \in 1..Len(calls) :
    /\ calls[c].pc = "rRes.json"
    /\ Sets(c, [app EXCEPT !.roots = calls[c].responses[1]], "roots",
            "sRes.json")

\* setSchemes(...), then vRes.json() is awaited
DecodeSchemes ==
  \E c \in 1..Len(calls) :
    /\ calls[c].pc = "sRes.json"
    /\ Sets(c, [app EXCEPT !.schemes = calls[c].responses[2]], "schemes",
            "vRes.json")

\* setTreeVisual(...), then verbRes.json() is awaited
DecodeVisual ==
  \E c \in 1..Len(calls) :
    /\ calls[c].pc = "vRes.json"
    /\ Sets(c, [app EXCEPT !.treeVisual = calls[c].responses[3]],
            "treeVisual", "verbRes.json")

\* setVerbTypes(...) and the finally block
DecodeVerbTypes ==
  \E c \in 1..Len(calls) :
    /\ calls[c].pc = "verbRes.json"
    /\ op' = "step"
    /\ key' = <<>>
    /\ app' = [app EXCEPT !.verbTypes = calls[c].responses[4],
                          !.loading = FALSE]
    /\ shown' = [shown EXCEPT !.verbTypes = calls[c].seq]
    /\ calls' = [calls EXCEPT ![c] = Ended([@ EXCEPT !.wrote = TRUE], "done")]
    /\ sent' = <<>>
    /\ UNCHANGED <<backend, started>>
    /\ UNCHANGED appFrame

\* the body that fetchData is decoding is not JSON (or, for the roots, not
\* an array): the await rejects
DecodeRejects ==
  \E c \in 1..Len(calls) :
    /\ calls[c].pc \in {"rRes.json", "sRes.json", "vRes.json", "verbRes.json"}
    /\ Caught(c)

\* the steps the network and the promises take
Settles ==
  \/ RequestSucceeds
  \/ RequestRejects
  \/ ServerGet
  \/ PromiseAllRejects
  \/ PromiseAllResolves
  \/ DecodeRoots
  \/ DecodeSchemes
  \/ DecodeVisual
  \/ DecodeVerbTypes
  \/ DecodeRejects

\* the root tab: roots are added while refreshes are under way
NextApp == HandleAddRoot \/ Settles

SpecApp == InitApp /\ [][NextApp]_vars

\* every request and every promise settles in the end; the user owes
\* nothing
SpecAppLive == SpecApp /\ WF_vars(Settles)

\* the scheme tab: schemes are edited, saved and deleted
NextAppSchemes ==
  \/ HandleEditScheme
  \/ SetNewSchemeId
  \/ CancelEdit
  \/ HandleSaveScheme
  \/ HandleDeleteScheme
  \/ Settles

SpecAppSchemes == InitApp /\ [][NextAppSchemes]_vars

\* the forms: every handler that has a guard is called on every content of
\* its inputs, while the answers to the requests sent are outstanding
NextAppInputs ==
  \/ SetNewSchemeId
  \/ SetNewSchemePattern
  \/ SetGenRoot
  \/ SetGenSchemeId
  \/ SetValWord
  \/ SetValRoot
  \/ SetHistoryRoot
  \/ HandleAddRoot
  \/ HandleSaveScheme
  \/ HandleGenerate
  \/ HandleValidate
  \/ HandleHistoryByRoot
  \/ HistoryAnswered
  \/ HistoryRejects

SpecAppInputs == InitApp /\ [][NextAppInputs]_vars

(***************************************************************************)
(* Properties of the App component                                         *)
(***************************************************************************)
\* the awaits of fetchData
RefreshPcs == {"gets", "rRes.json", "sRes.json", "vRes.json", "verbRes.json"}

\* C23: whenever loading is true it becomes false again, provided every
\* request and every promise settles, by success or by failure.
C23_LoadingEventuallyClears == app.loading ~> ~app.loading

\* C24: once every invocation has run to its end without a failure, roots,
\* schemes and treeVisual are those of the refresh started last; and, as
\* long as nothing has failed, loading is true while some refresh is under
\* way.
C24_LatestRefreshWins ==
  /\ (\A c \in 1..Len(calls) : calls[c].pc = "done") =>
       /\ shown.roots = started
       /\ shown.schemes = started
       /\ shown.treeVisual = started
  /\ (\A c \in 1..Len(calls) : calls[c].pc \notin {"failed", "rejected"}) =>
       ((\E c \in 1..Len(calls) : calls[c].pc \in RefreshPcs) => app.loading)

\* C25: a refresh that ended in its catch block has set none of roots,
\* schemes, treeVisual and verbTypes.
C25_RefreshAllOrNothing ==
  \A c \in 1..Len(calls) : calls[c].pc = "failed" => ~calls[c].wrote

\* C28: an update names in its URL the identifier that its body carries.
C28_UpdateTargetIsBodyId ==
  \A i \in 1..Len(sent) :
    sent[i].method = "PUT" => sent[i].target = sent[i].body.id

\* C29: when a delete handler has run on or has failed, editingSchemeId does
\* not name the deleted scheme, and if it named another scheme or none
\* before, it and the form are as they were.
C29_DeleteLeavesEditMode ==
  [][op' \in {"deleteSchemeResumed", "deleteSchemeRejected"} =>
       /\ app'.editingSchemeId # key'
       /\ app.editingSchemeId # key' =>
            /\ app'.editingSchemeId = app.editingSchemeId
            /\ app'.newScheme = app.newScheme]_vars

\* the inputs of the handler named o, called with k, are incomplete
Incomplete(a, o, k) ==
  \/ o = "handleAddRoot" /\ Len(trim(k)) # 3
  \/ o = "handleSaveScheme"
       /\ (a.newScheme.id = <<>> \/ a.newScheme.pattern = <<>>)
  \/ o = "handleGenerate" /\ (a.genRoot = <<>> \/ a.genSchemeId = <<>>)
  \/ o = "handleValidate" /\ (a.valWord = <<>> \/ a.valRoot = <<>>)
  \/ o = "handleHistoryByRoot" /\ Len(trim(a.historyRoot)) # 3

\* C30: a handler called with incomplete inputs sends no request and
\* changes neither the state of the component nor the invocations under
\* way.
C30_IncompleteInputsDoNothing ==
  [][Incomplete(app, op', key') =>
       /\ sent' = <<>>
       /\ UNCHANGED <<app, calls, backend, started, shown>>]_vars

\* add-root was called with a value of 3 characters that trims to 2, while
\* the forms hold text and a request of another handler is outstanding
C30_Witness ==
  /\ op = "handleAddRoot"
  /\ Len(key) = 3
  /\ Len(trim(key)) = 2
  /\ sent = <<>>
  /\ app.valWord # <<>>
  /\ app.newScheme.id # <<>>
  /\ \E c \in 1..Len(calls) : calls[c].pc = "request"

=============================================================================
